---- MODULE Spec2Model ----
(***************************************************************************)
(* A model of the homedir crate: the facade of src/lib.rs over its two    *)
(* backends, src/unix.rs (account database lookups through nix) and       *)
(* src/windows.rs (LookupAccountNameW, GetTokenInformation,               *)
(* ConvertSidToStringSidW, the WMI locator and SHGetKnownFolderPath).     *)
(*                                                                         *)
(* The operating system is the environment: every OS primitive is a step  *)
(* whose outcome is drawn from the outcomes that primitive can report.    *)
(***************************************************************************)
EXTENDS Integers, Sequences, FiniteSets, TLC

(***************************************************************************)
(* Bounds of the model.                                                    *)
(***************************************************************************)
\* longest account database (number of passwd entries) explored
MaxEntries == 2
\* API calls started on the Windows backend in one behaviour
MaxCalls == 2

(***************************************************************************)
(* Values.  A username is a sequence of characters; character 0 is NUL.   *)
(***************************************************************************)
NUL == 0
AccountNames == {<<1>>, <<2>>}
Usernames == AccountNames \cup {<<1, NUL>>, <<1, NUL, 2>>}
WinAccounts == {<<1>>}
Uids == {0, 1}
Dirs == {"/root", "/home/a"}
EnvValues == {"/tmp/x"}
Threads == {1, 2}

\* Result<Option<T>, E>: Ok(Some(v)), Ok(None), Err(e).  Option is a
\* sequence of length at most one.
Found(v) == [ok |-> TRUE, val |-> <<v>>, err |-> "none"]
NotFound == [ok |-> TRUE, val |-> <<>>, err |-> "none"]
Failed(e) == [ok |-> FALSE, val |-> <<>>, err |-> e]
NoResult == [ok |-> FALSE, val |-> <<>>, err |-> "pending"]

IsFound(r) == r.ok /\ Len(r.val) = 1
IsFailed(r) == ~r.ok /\ r.err # "pending"

\* Whether a name contains a NUL character anywhere.
HasNul(name) == \E i \in DOMAIN name : name[i] = NUL

\* Whether a name contains a NUL character before its last position.
HasInteriorNul(name) == \E i \in DOMAIN name : name[i] = NUL /\ i < Len(name)

\* The C string a NUL-terminated buffer denotes: the characters before the
\* first NUL.
RECURSIVE CStr(_)
CStr(name) ==
    IF name = <<>> \/ Head(name) = NUL THEN <<>>
    ELSE <<Head(name)>> \o CStr(Tail(name))

VARIABLES
    target,     \* the backend compiled in: "unix" or "windows"
    passwd,     \* unix: the account database, a sequence of entries
    HOME,       \* unix: the HOME environment variable, <<>> or <<v>>
    held,       \* the identifiers (unix: uids, windows: SIDs) the caller holds
    removed,    \* unix: held uids that lost an entry after they were obtained
    ucall,      \* unix: the last API call and what it returned
    autoInit,   \* windows: feature "windows-coinitialize"
    accounts,   \* windows: the account names that exist
    profiles,   \* windows: the SIDs that have a Win32_UserProfile row
    deleted,    \* windows: the SIDs whose account was deleted
    comInit,    \* windows: whether the COM runtime is initialized
    th,         \* windows: each thread's call in progress
    heap,       \* windows: counts of allocations and frees
    ncalls      \* windows: API calls started

uvars == <<passwd, HOME, removed, ucall>>
wvars == <<accounts, profiles, deleted, comInit, th, heap, ncalls>>
vars == <<target, autoInit, held, uvars, wvars>>

(***************************************************************************)
(* Unix backend (src/unix.rs).                                             *)
(***************************************************************************)
Entries == [name : AccountNames, uid : Uids, dir : Dirs]

RECURSIVE SeqsUpTo(_, _)
SeqsUpTo(S, n) ==
    IF n = 0 THEN {<<>>}
    ELSE LET shorter == SeqsUpTo(S, n - 1)
         IN shorter \cup {Append(s, e) : s \in {x \in shorter : Len(x) = n - 1}, e \in S}

\* The first entry of the database that satisfies P, as an Option.
FirstMatch(db, P(_)) ==
    LET hits == {i \in DOMAIN db : P(db[i])}
    IN IF hits = {} THEN <<>>
       ELSE <<db[CHOOSE i \in hits : \A j \in hits : i <= j]>>

\* nix::unistd::User::from_name: the name is made a C string first and a
\* name with a NUL yields Ok(None) without a lookup; otherwise getpwnam_r
\* either fails with an errno or yields the first entry of that name.
User_from_name(db, name, fault) ==
    IF HasNul(name) THEN NotFound
    ELSE IF fault THEN Failed("EIO")
    ELSE LET e == FirstMatch(db, LAMBDA x : x.name = name)
         IN IF e = <<>> THEN NotFound ELSE Found(e[1])

\* nix::unistd::User::from_uid: getpwuid_r either fails with an errno or
\* yields the first entry of that uid.
User_from_uid(db, uid, fault) ==
    IF fault THEN Failed("EIO")
    ELSE LET e == FirstMatch(db, LAMBDA x : x.uid = uid)
         IN IF e = <<>> THEN NotFound ELSE Found(e[1])

\* The number of account database lookups (getpwnam_r) from_name performs.
LookupsByName(name) == IF HasNul(name) THEN 0 ELSE 1

\* Result::map over the Option: |user| user.dir and |user| user.uid.
MapDir(r) == IF IsFound(r) THEN Found(r.val[1].dir) ELSE r
MapUid(r) == IF IsFound(r) THEN Found(r.val[1].uid) ELSE r

unix_home(db, name, fault) == MapDir(User_from_name(db, name, fault))

unix_with_username(db, name, fault) == MapUid(User_from_name(db, name, fault))

\* Faulty variant: to_home looks up the calling process's uid, not the identifier's.
unix_to_home_current(db, uid, fault) == MapDir(User_from_uid(db, 0, fault))

unix_to_home(db, uid, fault) == MapDir(User_from_uid(db, uid, fault))

\* Uid::current(): the real user id of the process.
CurrentUid == 0

unix_my_id == Found(CurrentUid)

\* Faulty variant: the account database first, HOME only as a fallback (the order
\* of version 0.1.0).
unix_my_home_db_first(env, db, fault) ==
    LET r == MapDir(User_from_uid(db, CurrentUid, fault))
    IN IF IsFound(r) \/ env = <<>> THEN r ELSE Found(env[1])

unix_my_home(env, db, fault) ==
    IF env # <<>> THEN Found(env[1])
    ELSE MapDir(User_from_uid(db, CurrentUid, fault))

\* The number of account database lookups my_home performs.
unix_my_home_lookups(env) == IF env # <<>> THEN 0 ELSE 1

NoCall == [op |-> "none", name |-> <<>>, uid |-> 0, fault |-> FALSE,
           lookups |-> 0, ret |-> NoResult]

UnixHome(name, fault) ==
    /\ target = "unix"
    /\ ucall' = [op |-> "home", name |-> name, uid |-> 0, fault |-> fault,
                 lookups |-> LookupsByName(name),
                 ret |-> unix_home(passwd, name, fault)]
    /\ UNCHANGED <<passwd, HOME, held, removed>>

UnixWithUsername(name, fault) ==
    /\ target = "unix"
    /\ LET r == unix_with_username(passwd, name, fault)
       IN /\ ucall' = [op |-> "with_username", name |-> name, uid |-> 0,
                       fault |-> fault, lookups |-> LookupsByName(name), ret |-> r]
          /\ held' = IF IsFound(r) THEN held \cup {r.val[1]} ELSE held
          /\ removed' = IF IsFound(r) THEN removed \ {r.val[1]} ELSE removed
    /\ UNCHANGED <<passwd, HOME>>

UnixMyId ==
    /\ target = "unix"
    /\ ucall' = [op |-> "my_id", name |-> <<>>, uid |-> CurrentUid, fault |-> FALSE,
                 lookups |-> 0, ret |-> unix_my_id]
    /\ held' = held \cup {CurrentUid}
    /\ removed' = removed \ {CurrentUid}
    /\ UNCHANGED <<passwd, HOME>>

UnixToHome(uid, fault) ==
    /\ target = "unix"
    /\ uid \in held
    /\ ucall' = [op |-> "to_home", name |-> <<>>, uid |-> uid, fault |-> fault,
                 lookups |-> 1, ret |-> unix_to_home(passwd, uid, fault)]
    /\ UNCHANGED <<passwd, HOME, held, removed>>

UnixMyHome(fault) ==
    /\ target = "unix"
    /\ ucall' = [op |-> "my_home", name |-> <<>>, uid |-> CurrentUid,
                 fault |-> fault /\ HOME = <<>>,
                 lookups |-> unix_my_home_lookups(HOME),
                 ret |-> unix_my_home(HOME, passwd, fault)]
    /\ UNCHANGED <<passwd, HOME, held, removed>>

\* Environment: an account is removed from the database.
RemoveAt(db, i) == SubSeq(db, 1, i - 1) \o SubSeq(db, i + 1, Len(db))

UnixDeleteEntry(i) ==
    /\ target = "unix"
    /\ i \in DOMAIN passwd
    /\ passwd' = RemoveAt(passwd, i)
    /\ removed' = removed \cup ({passwd[i].uid} \cap held)
    /\ ucall' = NoCall
    /\ UNCHANGED <<HOME, held>>

\* Environment: the caller sets or unsets HOME.
UnixSetEnv(v) ==
    /\ target = "unix"
    /\ HOME' = v
    /\ HOME' # HOME
    /\ ucall' = NoCall
    /\ UNCHANGED <<passwd, held, removed>>

UnixNext ==
    /\ \/ \E name \in Usernames, fault \in BOOLEAN : UnixHome(name, fault)
       \/ \E name \in Usernames, fault \in BOOLEAN : UnixWithUsername(name, fault)
       \/ UnixMyId
       \/ \E uid \in Uids, fault \in BOOLEAN : UnixToHome(uid, fault)
       \/ \E fault \in BOOLEAN : UnixMyHome(fault)
       \/ \E i \in 1..MaxEntries : UnixDeleteEntry(i)
       \/ \E v \in {<<>>} \cup {<<x>> : x \in EnvValues} : UnixSetEnv(v)
    /\ UNCHANGED <<target, autoInit, wvars>>

(***************************************************************************)
(* Windows backend (src/windows.rs).                                       *)
(***************************************************************************)
\* The SID of an account, in the text form ConvertSidToStringSidW gives.
SidOf(name) == IF name = <<1>> THEN "S-1-5-21-1001" ELSE "S-1-5-21-1002"
Sids == {SidOf(n) : n \in WinAccounts}

\* The LocalPath of the Win32_UserProfile row of a SID.
PathOf(sid) == IF sid = "S-1-5-21-1001" THEN "C:\\Users\\a" ELSE "C:\\Users\\b"

\* The user of the process token, and FOLDERID_Profile of that user.
MySid == "S-1-5-21-1001"
MyProfile == "C:\\Users\\a"

\* A heap buffer or handle: "none", then "live", then "freed"; a second
\* release makes it "double".
Release(b) == IF b = "live" THEN "freed" ELSE "double"

Idle == [pc |-> "idle", op |-> "none", name |-> <<>>, id |-> "", sid |-> "",
         ret |-> NoResult, inner |-> NoResult, size |-> 0,
         buf |-> "none", str |-> "none", out |-> "none",
         token |-> "none", closes |-> 0, conv |-> "none",
         nalloc |-> 0, nfree |-> 0, outFrees |-> 0,
         osCalled |-> FALSE, inits |-> 0, retries |-> 0,
         first |-> "none", init |-> "none", second |-> "none",
         rows |-> -1, row |-> "none", vt |-> "none",
         gone |-> FALSE, uaf |-> FALSE, early |-> FALSE]

\* A call returns r to its caller.
Done(l, r) == [l EXCEPT !.pc = "done", !.ret = r]

\* U16CString::from_str: widestring scans the UTF-16 encoding for NUL and
\* rejects one anywhere but at the last position.
U16CString_from_str(name) ==
    IF HasInteriorNul(name) THEN Failed("ContainsNul") ELSE Found(name)

(* ---- GetHomeInstance::new and query_home ------------------------------ *)

\* Faulty variant: any failure of the first attempt leads to CoInitializeEx.
new_create_any_failure(l, auto, status) ==
    LET l1 == [l EXCEPT !.osCalled = TRUE, !.first = status]
    IN IF status = "ok" THEN [l1 EXCEPT !.pc = "gh_connect"]
       ELSE IF ~auto THEN Done(l1, Failed(status))
       ELSE [l1 EXCEPT !.pc = "gh_init"]

\* CoCreateInstance of the locator, first attempt (lines 244-256).
new_create(l, auto, status) ==
    LET l1 == [l EXCEPT !.osCalled = TRUE, !.first = status]
    IN IF status = "ok" THEN [l1 EXCEPT !.pc = "gh_connect"]
       ELSE IF ~auto THEN Done(l1, Failed(status))
       ELSE IF status # "CO_E_NOTINITIALIZED" THEN Done(l1, Failed(status))
       ELSE [l1 EXCEPT !.pc = "gh_init"]

\* CoInitializeEx(None, COINIT_MULTITHREADED).ok()? (line 251).
new_init(l, status) ==
    LET l1 == [l EXCEPT !.osCalled = TRUE, !.inits = @ + 1, !.init = status]
    IN IF status \in {"ok", "S_FALSE"} THEN [l1 EXCEPT !.pc = "gh_retry"]
       ELSE Done(l1, Failed(status))

\* instance_fn()? the second time (line 252).
new_retry(l, status) ==
    LET l1 == [l EXCEPT !.osCalled = TRUE, !.retries = @ + 1, !.second = status]
    IN IF status = "ok" THEN [l1 EXCEPT !.pc = "gh_connect"]
       ELSE Done(l1, Failed(status))

\* ConnectServer(...)? and CoSetProxyBlanket(...)? (lines 259-279).
new_connect(l, s1, s2) ==
    IF s1 # "ok" THEN Done([l EXCEPT !.osCalled = TRUE], Failed(s1))
    ELSE IF s2 # "ok" THEN Done([l EXCEPT !.osCalled = TRUE], Failed(s2))
    ELSE [l EXCEPT !.osCalled = TRUE, !.pc = "qh_exec"]

\* ExecQuery(...)? (lines 286-294).
query_exec(l, status) ==
    LET l1 == [l EXCEPT !.osCalled = TRUE]
    IN IF status # "ok" THEN Done(l1, Failed(status))
       ELSE [l1 EXCEPT !.pc = "qh_next"]

\* The lTimeout argument of IEnumWbemClassObject::Next in query_home
\* (line 298): WBEM_INFINITE, wait without limit.
WBEM_INFINITE == -1
lTimeout == WBEM_INFINITE

\* The wait inside Next: it ends when the service delivers a row or the
\* end of the results; when the service stays silent it ends, with a
\* timeout status, only if lTimeout is a time, and otherwise never.
query_wait(l, delivered) ==
    IF delivered THEN l
    ELSE IF lTimeout = WBEM_INFINITE
         THEN [l EXCEPT !.osCalled = TRUE, !.pc = "qh_blocked"]
    ELSE Done([l EXCEPT !.osCalled = TRUE], Failed("WBEM_S_TIMEDOUT"))

\* Faulty variant: the row count is not looked at, so an empty result is a null row.
query_next_no_count(l, status, count, rowNull) ==
    LET l1 == [l EXCEPT !.osCalled = TRUE]
    IN IF status # "ok" THEN Done(l1, Failed(status))
       ELSE IF count = 0 \/ rowNull
            THEN Done([l1 EXCEPT !.rows = count], Failed("NullPointerResult"))
       ELSE [l1 EXCEPT !.rows = count, !.pc = "qh_get"]

\* query_enum.Next(WBEM_INFINITE, ..).ok()?, the row count and the row
\* pointer (lines 295-304).
query_next(l, status, count, rowNull) ==
    LET l1 == [l EXCEPT !.osCalled = TRUE]
    IN IF status # "ok" THEN Done(l1, Failed(status))
       ELSE IF count = 0 THEN Done([l1 EXCEPT !.rows = 0], NotFound)
       ELSE IF rowNull THEN Done([l1 EXCEPT !.rows = count, !.row = "null"],
                                 Failed("NullPointerResult"))
       ELSE [l1 EXCEPT !.rows = count, !.row = "ok", !.pc = "qh_get"]

\* ret.Get("LocalPath", ..)? and the read of bstrVal (lines 305-311).  The
\* tag of the variant is not looked at: with a tag other than VT_BSTR the
\* payload read is the zeroed default, an empty string.
query_get(l, status, vt) ==
    LET l1 == [l EXCEPT !.osCalled = TRUE, !.vt = vt]
    IN IF status # "ok" THEN Done(l1, Failed(status))
       ELSE IF vt = "VT_BSTR" THEN Done(l1, Found(PathOf(l.id)))
       ELSE Done(l1, Found(""))

(* ---- sid_to_string ---------------------------------------------------- *)

\* Where sid_to_string returns to.
Caller(l) == IF l.op = "my_id" THEN "mi_end" ELSE "wu_end"

\* sid_to_string returns while the caller's SID buffer is in state b.
ReturnsWith(l, b) == [l EXCEPT !.early = @ \/ b # "live", !.pc = Caller(l)]

\* ConvertSidToStringSidW(sid, &mut str_pointer)? and
\* U16CStr::from_ptr_str(str_pointer).to_string() (lines 108-111): the
\* call reads the caller's SID buffer, to_string reads the string buffer.
sid_to_string_convert(l, status, conv) ==
    LET l1 == [l EXCEPT !.osCalled = TRUE, !.uaf = @ \/ l.buf # "live"]
    IN IF status # "ok" THEN ReturnsWith([l1 EXCEPT !.inner = Failed(status)], l.buf)
       ELSE LET l2 == [l1 EXCEPT !.str = "live", !.nalloc = @ + 1]
            IN [l2 EXCEPT !.uaf = @ \/ l2.str # "live", !.conv = conv,
                          !.pc = "sts_free"]

\* The two arms after to_string (lines 111-122): LocalFree on both.
sid_to_string_free(l, freeOk) ==
    LET l1 == ReturnsWith([l EXCEPT !.osCalled = TRUE, !.str = Release(@),
                                    !.nfree = @ + 1], l.buf)
    IN IF l.conv # "ok" THEN [l1 EXCEPT !.inner = Failed(l.conv)]
       ELSE IF ~freeOk THEN [l1 EXCEPT !.inner = Failed("ERROR_INVALID_HANDLE")]
       ELSE [l1 EXCEPT !.inner = Found(l.sid)]

(* ---- UserIdentifier::with_username and home --------------------------- *)

\* home (lines 86-91), after with_username returned r: Ok(None) and Err
\* return, Ok(Some(id)) goes on to id.to_home().
home_continue(l, r) ==
    IF IsFound(r) THEN [l EXCEPT !.id = r.val[1], !.pc = "gh_create",
                                 !.first = "none", !.init = "none",
                                 !.second = "none"]
    ELSE Done(l, r)

\* with_username returns r: to its caller, or to home.
wu_return(l, r) ==
    IF l.op = "home" THEN home_continue([l EXCEPT !.inner = r], r) ELSE Done(l, r)

\* U16CString::from_str(username)? (line 131).
with_username_encode(l, name) ==
    LET e == U16CString_from_str(name)
    IN IF ~e.ok THEN wu_return(l, e) ELSE [l EXCEPT !.pc = "wu_probe"]

\* The size probe, the size check and alloc_zeroed (lines 132-158).
with_username_probe(l, status, size, ptrOk) ==
    LET l1 == [l EXCEPT !.osCalled = TRUE, !.size = size, !.first = status]
    IN IF status = "ERROR_NONE_MAPPED" THEN wu_return(l1, NotFound)
       ELSE IF status \notin {"ok", "ERROR_INSUFFICIENT_BUFFER"}
            THEN wu_return(l1, Failed(status))
       ELSE IF size = 0 THEN wu_return(l1, Failed("E_UNEXPECTED"))
       ELSE IF ~ptrOk THEN wu_return(l1, Failed("E_OUTOFMEMORY"))
       ELSE [l1 EXCEPT !.buf = "live", !.nalloc = @ + 1, !.pc = "wu_fill"]

\* Faulty variant: the SID buffer is deallocated before sid_to_string runs.
with_username_fill_dealloc_first(l, status) ==
    LET l1 == [l EXCEPT !.osCalled = TRUE, !.second = status,
                        !.uaf = @ \/ l.buf # "live"]
    IN IF status # "ok" THEN [l1 EXCEPT !.inner = Failed(status), !.pc = "wu_end"]
       ELSE [l1 EXCEPT !.sid = SidOf(CStr(l.name)), !.buf = Release(@),
                       !.nfree = @ + 1, !.pc = "sts_convert"]

\* The buffer-filling LookupAccountNameW (lines 161-175), which writes the
\* SID into the buffer.
with_username_fill(l, status) ==
    LET l1 == [l EXCEPT !.osCalled = TRUE, !.second = status,
                        !.uaf = @ \/ l.buf # "live"]
    IN IF status # "ok" THEN [l1 EXCEPT !.inner = Failed(status), !.pc = "wu_end"]
       ELSE [l1 EXCEPT !.sid = SidOf(CStr(l.name)), !.pc = "sts_convert"]

\* Faulty variant: the SID buffer is not deallocated.
with_username_end_no_dealloc(l) == wu_return(l, l.inner)

\* dealloc(sid_buf, layout); ret (lines 176-177).
with_username_end(l) ==
    wu_return([l EXCEPT !.buf = Release(@), !.nfree = @ + 1], l.inner)

(* ---- UserIdentifier::my_id -------------------------------------------- *)

\* OpenProcessToken(handle, TOKEN_QUERY, &mut token_handle)? (line 200).
my_id_open(l, status) ==
    LET l1 == [l EXCEPT !.osCalled = TRUE]
    IN IF status # "ok" THEN Done(l1, Failed(status))
       ELSE [l1 EXCEPT !.token = "live", !.pc = "mi_probe"]

\* CloseHandle(token_handle).
CloseToken(l) == [l EXCEPT !.token = Release(@), !.closes = @ + 1, !.osCalled = TRUE]

\* The size probe, the size check and alloc_zeroed (lines 201-218).
my_id_probe(l, status, size, ptrOk, closeOk) ==
    LET l1 == [l EXCEPT !.osCalled = TRUE, !.size = size, !.first = status]
    IN IF status \notin {"ok", "ERROR_INSUFFICIENT_BUFFER"}
            THEN Done(CloseToken(l1), Failed(status))
       ELSE IF size = 0 THEN Done(l1, Failed("E_UNEXPECTED"))
       ELSE IF ~ptrOk THEN
            IF ~closeOk THEN Done(CloseToken(l1), Failed("ERROR_INVALID_HANDLE"))
            ELSE Done(CloseToken(l1), Failed("E_OUTOFMEMORY"))
       ELSE [l1 EXCEPT !.buf = "live", !.nalloc = @ + 1, !.pc = "mi_fill"]

\* The data-fetching GetTokenInformation (lines 219-229).
my_id_fill(l, status) ==
    LET l1 == [l EXCEPT !.osCalled = TRUE, !.second = status,
                        !.uaf = @ \/ l.buf # "live"]
    IN IF status # "ok" THEN [l1 EXCEPT !.inner = Failed(status), !.pc = "mi_end"]
       ELSE [l1 EXCEPT !.sid = MySid, !.pc = "sts_convert"]

\* dealloc(buf_ptr, layout); CloseHandle(token_handle)?; ret (lines 230-232).
my_id_end(l, closeOk) ==
    LET l1 == CloseToken([l EXCEPT !.buf = Release(@), !.nfree = @ + 1])
    IN IF ~closeOk THEN Done(l1, Failed("ERROR_INVALID_HANDLE"))
       ELSE Done(l1, l.inner)

(* ---- my_home ---------------------------------------------------------- *)

\* SHGetKnownFolderPath(&FOLDERID_Profile, ..)?.0 and the null check
\* (lines 96-100).
my_home_call(l, status, isNull) ==
    LET l1 == [l EXCEPT !.osCalled = TRUE, !.first = status]
    IN IF status # "ok" THEN Done(l1, Failed(status))
       ELSE IF isNull THEN Done(l1, NotFound)
       ELSE [l1 EXCEPT !.out = "live", !.pc = "mh_copy"]

\* Faulty variant: CoTaskMemFree before the copy out of the buffer.
my_home_copy_free_first(l) ==
    LET l1 == [l EXCEPT !.out = Release(@), !.outFrees = @ + 1]
    IN Done([l1 EXCEPT !.uaf = @ \/ l1.out # "live"], Found(MyProfile))

\* The copy out of the buffer, then CoTaskMemFree (lines 101-103).
my_home_copy(l) ==
    LET l1 == [l EXCEPT !.uaf = @ \/ l.out # "live"]
    IN Done([l1 EXCEPT !.out = Release(@), !.outFrees = @ + 1], Found(MyProfile))

(***************************************************************************)
(* The operating system's answers.                                         *)
(***************************************************************************)
\* LookupAccountNameW without buffers: "no mapping" for a name that is no
\* account, "insufficient buffer" and the SID's size for one that is; and
\* the answers the code guards against (another error, a size of zero).
ProbeOutcomes(name) ==
    (IF CStr(name) \in accounts
        THEN {[status |-> "ERROR_INSUFFICIENT_BUFFER", size |-> 28]}
        ELSE {[status |-> "ERROR_NONE_MAPPED", size |-> 0]})
    \cup {[status |-> "ERROR_ACCESS_DENIED", size |-> 0], [status |-> "ok", size |-> 0],
          [status |-> "ERROR_INSUFFICIENT_BUFFER", size |-> 0]}

\* LookupAccountNameW with buffers.
FillOutcomes(name) ==
    IF CStr(name) \in accounts THEN {"ok", "ERROR_ACCESS_DENIED"}
    ELSE {"ERROR_NONE_MAPPED", "ERROR_ACCESS_DENIED"}

\* GetTokenInformation without a buffer.
TokenProbeOutcomes ==
    {[status |-> "ERROR_INSUFFICIENT_BUFFER", size |-> 44],
     [status |-> "ERROR_ACCESS_DENIED", size |-> 0], [status |-> "ok", size |-> 0],
     [status |-> "ERROR_INSUFFICIENT_BUFFER", size |-> 0]}

\* CoCreateInstance: "not initialized" exactly while the runtime is not.
CreateOutcomes ==
    IF comInit THEN {"ok", "REGDB_E_CLASSNOTREG"}
    ELSE {"CO_E_NOTINITIALIZED", "REGDB_E_CLASSNOTREG"}

\* CoInitializeEx: S_OK, S_FALSE when already initialized, or a failure.
InitOutcomes == (IF comInit THEN {"S_FALSE"} ELSE {"ok"}) \cup {"E_OUTOFMEMORY"}

\* Any other primitive: success or a failure status.
OkOrFail == {"ok", "E_FAIL"}

\* The statuses the OS reports for a failure.
OsFailures == {"E_FAIL", "E_INVALIDARG", "E_OUTOFMEMORY", "ERROR_ACCESS_DENIED",
               "ERROR_NONE_MAPPED", "ERROR_INSUFFICIENT_BUFFER",
               "CO_E_NOTINITIALIZED", "REGDB_E_CLASSNOTREG", "ERROR_INVALID_HANDLE"}

(***************************************************************************)
(* Windows actions.  A step that reads what other threads and the rest of  *)
(* the system change (the accounts, the profiles, the COM runtime) is an   *)
(* action of its own; the steps of a call that touch only the thread's own *)
(* buffers and handles run within the action that reaches them.            *)
(***************************************************************************)
\* Thread t moves to l2; the heap counters follow its allocations and
\* frees, and an identifier returned is one the caller now holds.
Advance(t, l2) ==
    /\ th' = [th EXCEPT ![t] = l2]
    /\ LET was == IF th[t].pc \in {"idle", "done"} THEN Idle ELSE th[t]
       IN heap' = [allocs |-> heap.allocs + (l2.nalloc - was.nalloc),
                   frees |-> heap.frees + (l2.nfree - was.nfree)]
    /\ held' = IF l2.pc = "done" /\ l2.op \in {"with_username", "my_id"}
                  /\ IsFound(l2.ret)
               THEN held \cup {l2.ret.val[1]} ELSE held
    /\ UNCHANGED <<target, autoInit, uvars, accounts, profiles, deleted>>

\* A thread that is not in a call starts one.  Threads are interchangeable:
\* a thread starts a call only if the threads before it are in calls.
Begin(t) ==
    /\ target = "windows"
    /\ th[t].pc \in {"idle", "done"}
    /\ \A u \in Threads : u < t => th[u].pc \notin {"idle", "done"}
    /\ ncalls < MaxCalls
    /\ ncalls' = ncalls + 1

At(t, pc) ==
    /\ target = "windows"
    /\ th[t].pc = pc
    /\ UNCHANGED ncalls

Start(t, op) == [Idle EXCEPT !.op = op]

\* The end of with_username (dealloc) or of my_id (dealloc, CloseHandle),
\* once sid_to_string or the buffer-filling call has returned.
RunEnd(t, l) ==
    IF l.pc = "wu_end" THEN Advance(t, with_username_end(l))
    ELSE IF l.pc = "mi_end"
         THEN \E closeOk \in BOOLEAN : Advance(t, my_id_end(l, closeOk))
    ELSE Advance(t, l)

\* sid_to_string (lines 107-123), if l is at its first step, and the end
\* of its caller.
RunSidToString(t, l) ==
    IF l.pc # "sts_convert" THEN RunEnd(t, l)
    ELSE \E s \in OkOrFail :
            \E conv \in IF s = "ok" THEN {"ok", "Utf16Error"} ELSE {"ok"} :
               LET a == sid_to_string_convert(l, s, conv)
               IN IF a.pc # "sts_free" THEN RunEnd(t, a)
                  ELSE \E freeOk \in BOOLEAN : RunEnd(t, sid_to_string_free(a, freeOk))

\* lib.rs home -> windows::home, and UserIdentifier::with_username, up to
\* the size probe.
CallByName(t, op, name) ==
    /\ Begin(t)
    /\ LET a == with_username_encode([Start(t, op) EXCEPT !.name = name], name)
       IN IF a.pc # "wu_probe" THEN Advance(t, a)
          ELSE \E o \in ProbeOutcomes(name) :
                  \E ptrOk \in IF o.size > 0 THEN BOOLEAN ELSE {TRUE} :
                     Advance(t, with_username_probe(a, o.status, o.size, ptrOk))
    /\ UNCHANGED comInit

\* with_username from the buffer-filling lookup to its return.
WuFill(t) ==
    /\ At(t, "wu_fill")
    /\ \E fill \in FillOutcomes(th[t].name) :
          RunSidToString(t, with_username_fill(th[t], fill))
    /\ UNCHANGED comInit

\* my_id, whole: the token, the buffer and the string are the thread's own.
CallMyId(t) ==
    /\ Begin(t)
    /\ \E open \in OkOrFail :
          LET a == my_id_open([Start(t, "my_id") EXCEPT !.pc = "mi_open"], open)
          IN IF a.pc # "mi_probe" THEN Advance(t, a)
             ELSE \E o \in TokenProbeOutcomes :
                     \E ptrOk \in IF o.size > 0 THEN BOOLEAN ELSE {TRUE} :
                        \E closeOk \in IF ptrOk THEN {TRUE} ELSE BOOLEAN :
                           LET b == my_id_probe(a, o.status, o.size, ptrOk, closeOk)
                           IN IF b.pc # "mi_fill" THEN Advance(t, b)
                              ELSE \E fill \in OkOrFail :
                                      RunSidToString(t, my_id_fill(b, fill))
    /\ UNCHANGED comInit

\* my_home, whole.
CallMyHome(t) ==
    /\ Begin(t)
    /\ \E s \in {"ok", "E_INVALIDARG", "E_FAIL"} :
          \E isNull \in IF s = "ok" THEN BOOLEAN ELSE {FALSE} :
             LET a == my_home_call([Start(t, "my_home") EXCEPT !.pc = "mh_call"],
                                   s, isNull)
             IN IF a.pc = "mh_copy" THEN Advance(t, my_home_copy(a)) ELSE Advance(t, a)
    /\ UNCHANGED comInit

CallToHome(t, id) ==
    /\ Begin(t)
    /\ id \in held
    /\ Advance(t, [Start(t, "to_home") EXCEPT !.id = id, !.pc = "gh_create"])
    /\ UNCHANGED comInit

\* GetHomeInstance::new after the locator was created, and ExecQuery
\* (lines 259-294).
RunConnect(t, l) ==
    IF l.pc # "gh_connect" THEN Advance(t, l)
    ELSE \E s1 \in OkOrFail :
            \E s2 \in IF s1 = "ok" THEN OkOrFail ELSE {"ok"} :
               LET a == new_connect(l, s1, s2)
               IN IF a.pc # "qh_exec" THEN Advance(t, a)
                  ELSE \E s3 \in OkOrFail : Advance(t, query_exec(a, s3))

GhCreate(t) ==
    /\ At(t, "gh_create")
    /\ \E s \in CreateOutcomes : RunConnect(t, new_create(th[t], autoInit, s))
    /\ UNCHANGED comInit

GhInit(t) ==
    /\ At(t, "gh_init")
    /\ \E s \in InitOutcomes :
          /\ Advance(t, new_init(th[t], s))
          /\ comInit' = (comInit \/ s \in {"ok", "S_FALSE"})

GhRetry(t) ==
    /\ At(t, "gh_retry")
    /\ \E s \in CreateOutcomes : RunConnect(t, new_retry(th[t], s))
    /\ UNCHANGED comInit

\* query_home from the pull of the row to its return (lines 295-312).  The
\* rows are those of the profile table when the row is pulled.
QhNext(t) ==
    /\ At(t, "qh_next")
    /\ LET count == IF th[t].id \in profiles THEN 1 ELSE 0
           l == [th[t] EXCEPT !.gone = th[t].id \in deleted]
       IN \E delivered \in BOOLEAN :
             LET w == query_wait(l, delivered)
             IN IF w.pc # "qh_next" THEN Advance(t, w)
                ELSE
          \E s \in OkOrFail :
             \E rowNull \in IF s = "ok" /\ count > 0 THEN BOOLEAN ELSE {FALSE} :
                LET a == query_next(w, s, count, rowNull)
                IN IF a.pc # "qh_get" THEN Advance(t, a)
                   ELSE \E get \in OkOrFail :
                           \E vt \in IF get = "ok" THEN {"VT_BSTR", "VT_NULL"}
                                     ELSE {"VT_EMPTY"} :
                              Advance(t, query_get(a, get, vt))
    /\ UNCHANGED comInit

\* Environment: an account and its profile are deleted.
WinDeleteAccount(name) ==
    /\ target = "windows"
    /\ name \in accounts
    /\ accounts' = accounts \ {name}
    /\ profiles' = profiles \ {SidOf(name)}
    /\ deleted' = deleted \cup {SidOf(name)}
    /\ UNCHANGED <<target, autoInit, held, uvars, comInit, th, heap, ncalls>>

WinNext ==
    \/ \E t \in Threads, name \in Usernames : CallByName(t, "with_username", name)
    \/ \E t \in Threads, name \in Usernames : CallByName(t, "home", name)
    \/ \E t \in Threads : WuFill(t)
    \/ \E t \in Threads : CallMyId(t)
    \/ \E t \in Threads : CallMyHome(t)
    \/ \E t \in Threads, id \in Sids : CallToHome(t, id)
    \/ \E t \in Threads : GhCreate(t)
    \/ \E t \in Threads : GhInit(t)
    \/ \E t \in Threads : GhRetry(t)
    \/ \E t \in Threads : QhNext(t)
    \/ \E name \in WinAccounts : WinDeleteAccount(name)

(***************************************************************************)
(* The specification.  The backend is fixed when the crate is built        *)
(* (lib.rs, cfg_if), and so is the windows-coinitialize feature.           *)
(***************************************************************************)
InitUnix ==
    /\ target = "unix"
    /\ passwd \in SeqsUpTo(Entries, MaxEntries)
    /\ HOME \in {<<>>} \cup {<<x>> : x \in EnvValues}
    /\ autoInit = FALSE
    /\ accounts = {}
    /\ profiles = {}
    /\ comInit = FALSE

InitWindows ==
    /\ target = "windows"
    /\ passwd = <<>>
    /\ HOME = <<>>
    /\ autoInit \in BOOLEAN
    /\ accounts = WinAccounts
    /\ profiles = {SidOf(<<1>>)}
    /\ comInit \in BOOLEAN

Init ==
    /\ InitUnix \/ InitWindows
    /\ held = {}
    /\ removed = {}
    /\ ucall = NoCall
    /\ deleted = {}
    /\ th = [t \in Threads |-> Idle]
    /\ heap = [allocs |-> 0, frees |-> 0]
    /\ ncalls = 0

Next == UnixNext \/ WinNext

Spec == Init /\ [][Next]_vars

\* A thread inside a call keeps running: each step of its own that is
\* possible is eventually taken.
Proceed(t) == WuFill(t) \/ GhCreate(t) \/ GhInit(t) \/ GhRetry(t) \/ QhNext(t)

FairSpec == Spec /\ \A t \in Threads : WF_vars(Proceed(t))

(***************************************************************************)
(* Properties.                                                             *)
(***************************************************************************)
Finished(t) == th[t].pc = "done"

\* The entries of the database with a given name or uid.
HasName(db, name) == \E i \in DOMAIN db : db[i].name = name
HasUid(db, uid) == \E i \in DOMAIN db : db[i].uid = uid

\* Every entry that shares the uid of name's entry has that entry's dir.
UidHasOneDir(db, name) ==
    \A i, j \in DOMAIN db :
        (db[i].name = name /\ (\A k \in 1..(i - 1) : db[k].name # name)
         /\ db[j].uid = db[i].uid) => db[j].dir = db[i].dir

\* windows::home is with_username followed by to_home: what with_username
\* returned is returned as is unless it is an identifier, and then to_home
\* ran on that identifier, the SID of the name.
WinHomeIsTwoStep ==
    \A t \in Threads :
        (Finished(t) /\ th[t].op = "home") =>
            IF IsFound(th[t].inner)
            THEN /\ th[t].id = th[t].inner.val[1]
                 /\ th[t].id = SidOf(CStr(th[t].name))
                 /\ th[t].first # "none"
            ELSE th[t].ret = th[t].inner

\* with_username has returned for a name of the database: an identifier.
UnixNameIsFound ==
    (/\ ucall.op = "with_username"
     /\ ~ucall.fault
     /\ HasName(passwd, ucall.name)) => IsFound(ucall.ret)

\* to_home has returned for the identifier with_username gives for U.
UnixToHomeOf(U) ==
    /\ ucall.op = "to_home"
    /\ ~ucall.fault
    /\ unix_with_username(passwd, U, FALSE) = Found(ucall.uid)

\* C1 as stated: for every username U of the account database,
\* with_username(U) is Found(id) and id.to_home() is the path home(U)
\* returns, for every account database, also one where names share a uid.
C1_TwoStepEqualsHome ==
    /\ target = "unix" =>
          /\ UnixNameIsFound
          /\ \A U \in AccountNames :
                UnixToHomeOf(U) => ucall.ret = unix_home(passwd, U, FALSE)
    /\ target = "windows" => WinHomeIsTwoStep

\* C1 amended: the same, on Unix for the usernames U whose uid leads to
\* one directory (every entry with the uid of U's entry has its dir, as
\* when no two names share a uid).
C1_TwoStepEqualsHomeOneDir ==
    /\ target = "unix" =>
          /\ UnixNameIsFound
          /\ \A U \in AccountNames :
                (UnixToHomeOf(U) /\ UidHasOneDir(passwd, U)) =>
                    ucall.ret = unix_home(passwd, U, FALSE)
    /\ target = "windows" => WinHomeIsTwoStep

\* to_home has just returned, on the identifier of a user of a database of
\* two accounts, the directory that home returns for that user.
C1_Witness ==
    /\ target = "unix"
    /\ ucall.op = "to_home"
    /\ IsFound(ucall.ret)
    /\ Len(passwd) = 2
    /\ passwd[1].uid # passwd[2].uid
    /\ \E U \in AccountNames :
          /\ unix_with_username(passwd, U, FALSE) = Found(ucall.uid)
          /\ ucall.uid # CurrentUid
          /\ ucall.ret = unix_home(passwd, U, FALSE)

\* C2 as stated: a username that matches no account yields NotFound from
\* home and with_username, never Failed, whichever lookup call reports the
\* missing account (on Windows the size probe or the buffer-filling call).
C2_MissingAccountIsNotFound ==
    /\ (/\ target = "unix"
        /\ ucall.op \in {"home", "with_username"}
        /\ ~ucall.fault
        /\ ~HasName(passwd, ucall.name)) => ucall.ret = NotFound
    /\ \A t \in Threads :
          (/\ Finished(t)
           /\ th[t].op \in {"home", "with_username"}
           /\ "ERROR_NONE_MAPPED" \in {th[t].first, th[t].second})
          => th[t].ret = NotFound

\* C3 as stated: a username with a NUL character makes home and
\* with_username fail with an encoding error, not NotFound and not a lookup
\* of the truncated name, before any OS primitive is invoked, on both
\* backends.
C3_NulIsEncodingError ==
    /\ (/\ target = "unix"
        /\ ucall.op \in {"home", "with_username"}
        /\ HasNul(ucall.name)) => (IsFailed(ucall.ret) /\ ucall.lookups = 0)
    /\ \A t \in Threads :
          (/\ th[t].pc # "idle"
           /\ th[t].op \in {"home", "with_username"}
           /\ HasNul(th[t].name))
          => (Finished(t) /\ th[t].ret = Failed("ContainsNul") /\ ~th[t].osCalled)

\* C4: Unix my_home returns Found(v) whenever HOME is set to v, whatever
\* the account database holds and without a lookup in it; with HOME unset
\* it returns the dir of the first entry of the current real uid, NotFound
\* if there is none, and fails only if the lookup itself fails.
C4_MyHomeEnvFirst ==
    (target = "unix" /\ ucall.op = "my_home") =>
        IF HOME # <<>>
        THEN ucall.ret = Found(HOME[1]) /\ ucall.lookups = 0
        ELSE /\ ucall.lookups = 1
             /\ ucall.fault => IsFailed(ucall.ret)
             /\ (~ucall.fault /\ ~HasUid(passwd, CurrentUid)) => ucall.ret = NotFound
             /\ (~ucall.fault /\ HasUid(passwd, CurrentUid)) =>
                   \E i \in DOMAIN passwd :
                      /\ passwd[i].uid = CurrentUid
                      /\ \A k \in 1..(i - 1) : passwd[k].uid # CurrentUid
                      /\ ucall.ret = Found(passwd[i].dir)

\* my_home returned the value of HOME although the current user's entry
\* names another directory.
C4_Witness ==
    /\ target = "unix"
    /\ ucall.op = "my_home"
    /\ HOME = <<"/tmp/x">>
    /\ ucall.ret = Found("/tmp/x")
    /\ \E i \in DOMAIN passwd : passwd[i].uid = CurrentUid /\ passwd[i].dir = "/root"

\* C5: to_home on an identifier whose account was deleted after the
\* identifier was obtained returns NotFound, not Failed: Unix to_home when
\* no entry has the uid (the lookup itself not failing), and Windows
\* query_home when the pull of the row succeeded for a deleted SID.
C5_DeletedAccountIsNotFound ==
    /\ (/\ target = "unix"
        /\ ucall.op = "to_home"
        /\ ~ucall.fault
        /\ ~HasUid(passwd, ucall.uid)) => ucall.ret = NotFound
    /\ \A t \in Threads :
          (/\ Finished(t)
           /\ th[t].op \in {"to_home", "home"}
           /\ th[t].gone
           /\ th[t].rows >= 0) => (th[t].rows = 0 /\ th[t].ret = NotFound)

\* to_home returned NotFound for an identifier the caller held while its
\* account was deleted.
C5_Witness ==
    \E t \in Threads :
        /\ Finished(t)
        /\ th[t].op = "to_home"
        /\ th[t].id \in held
        /\ th[t].id \in deleted
        /\ th[t].gone
        /\ th[t].ret = NotFound

\* C6 as stated: Windows my_home returns NotFound when the known-folder
\* call reports "invalid argument", Failed with the status when it reports
\* another failure, and Found(path) when it succeeds with a buffer.
C6_InvalidArgIsNotFound ==
    \A t \in Threads :
        (Finished(t) /\ th[t].op = "my_home") =>
            /\ th[t].first = "E_INVALIDARG" => th[t].ret = NotFound
            /\ th[t].first \notin {"ok", "E_INVALIDARG"} =>
                  th[t].ret = Failed(th[t].first)
            /\ (th[t].first = "ok" /\ th[t].out # "none") =>
                  th[t].ret = Found(MyProfile)

\* The thread is in, or has returned from, GetHomeInstance::new and
\* query_home (to_home, or home once with_username gave an identifier).
InNew(l) == l.op \in {"to_home", "home"} /\ l.id # "" /\ l.first # "none"

InitSucceeded(l) == l.init \in {"ok", "S_FALSE"}

\* What GetHomeInstance::new has done in a call, against C7.
NewInitializesOnce(l) ==
    /\ l.inits <= 1 /\ l.retries <= 1
    /\ l.inits = 1 <=> l.init # "none"
    \* initialized only after "not initialized" with the feature on
    /\ l.inits = 1 => (l.first = "CO_E_NOTINITIALIZED" /\ autoInit)
    /\ (l.first = "CO_E_NOTINITIALIZED" /\ autoInit /\ l.pc # "gh_init")
          => l.inits = 1
    \* an initialized runtime: the instantiation is retried, once
    /\ l.retries = 1 <=> (InitSucceeded(l) /\ l.pc # "gh_retry")
    /\ l.retries = 1 <=> l.second # "none"
    /\ (l.retries = 1 /\ l.second # "ok")
          => (l.pc = "done" /\ l.ret = Failed(l.second))
    \* CoInitializeEx failed: its failure is returned, nothing is retried
    /\ (l.inits = 1 /\ ~InitSucceeded(l))
          => (l.pc = "done" /\ l.ret = Failed(l.init) /\ l.retries = 0)
    \* another failure, or "not initialized" with the feature off
    /\ (l.first \notin {"ok", "CO_E_NOTINITIALIZED"}
         \/ (l.first = "CO_E_NOTINITIALIZED" /\ ~autoInit))
          => (l.pc = "done" /\ l.ret = Failed(l.first)
              /\ l.inits = 0 /\ l.retries = 0)

\* C7: GetHomeInstance::new calls CoInitializeEx only after the first
\* instantiation failed with "not initialized" and with auto-initialization
\* on; once the runtime is initialized the instantiation is retried exactly
\* once and a second failure is returned; a failure of CoInitializeEx
\* itself, any other instantiation failure, and "not initialized" with
\* auto-initialization off are returned with no (further) initialization
\* and no retry; no other operation initializes or retries, and the runtime
\* once initialized stays initialized.
C7_InitOnlyWhenNotInitialized ==
    /\ [](\A t \in Threads :
             IF InNew(th[t]) THEN NewInitializesOnce(th[t])
             ELSE th[t].inits = 0 /\ th[t].retries = 0)
    /\ [][comInit => comInit']_vars

\* A to_home call found the runtime not initialized, initialized it,
\* retried the instantiation once and returned the profile's path.
C7_Witness ==
    \E t \in Threads :
        /\ Finished(t)
        /\ th[t].op = "to_home"
        /\ autoInit
        /\ th[t].first = "CO_E_NOTINITIALIZED"
        /\ th[t].init = "ok"
        /\ th[t].inits = 1
        /\ th[t].retries = 1
        /\ th[t].second = "ok"
        /\ comInit
        /\ th[t].ret = Found(PathOf(th[t].id))

\* C8 as stated: once OpenProcessToken has succeeded, my_id closes the
\* token handle exactly once on every return path, also when the size probe
\* fails or reports a size of zero, when the allocation fails and when the
\* data-fetching call or the conversion to a string fails.
C8_TokenClosedOnce ==
    \A t \in Threads :
        (Finished(t) /\ th[t].op = "my_id" /\ th[t].token # "none") =>
            (th[t].closes = 1 /\ th[t].token = "freed")

\* The buffers of a call that are allocated and not yet freed.
LiveBuffers(l) ==
    (IF l.buf = "live" THEN 1 ELSE 0) + (IF l.str = "live" THEN 1 ELSE 0)

RECURSIVE SumLive(_)
SumLive(T) ==
    IF T = {} THEN 0
    ELSE LET t == CHOOSE x \in T : TRUE
         IN LiveBuffers(th[t]) + SumLive(T \ {t})

\* C9: the SID buffer, the token-information buffer and the SID string are
\* each freed exactly once on every exit path: a call that has returned
\* has as many frees as allocations and no buffer live or freed twice, the
\* allocations of the process exceed its frees by the buffers of the calls
\* in flight, and they are equal whenever no call is in flight, whatever
\* the other threads do (also one initializing the runtime).
C9_AllocationsEqualFrees ==
    /\ heap.allocs - heap.frees = SumLive(Threads)
    /\ \A t \in Threads :
          /\ th[t].buf # "double" /\ th[t].str # "double"
          /\ th[t].nfree <= th[t].nalloc
          /\ th[t].nalloc - th[t].nfree = LiveBuffers(th[t])
          /\ Finished(t) =>
                /\ th[t].nalloc = th[t].nfree
                /\ th[t].buf \in {"none", "freed"}
                /\ th[t].str \in {"none", "freed"}
    /\ (\A t \in Threads : th[t].pc \in {"idle", "done"}) =>
          heap.allocs = heap.frees

\* with_username returned an identifier, both its buffers allocated and
\* freed, while another thread, in home, is initializing the runtime after
\* its own with_username allocated and freed two buffers.
C9_Witness ==
    \E t, u \in Threads :
        /\ Finished(t)
        /\ th[t].op = "with_username"
        /\ IsFound(th[t].ret)
        /\ th[t].nalloc = 2
        /\ th[t].nfree = 2
        /\ th[u].op = "home"
        /\ th[u].pc \in {"gh_init", "gh_retry"}
        /\ heap.allocs = 4
        /\ heap.frees = 4

C11_VariantTagChecked ==
    \A t \in Threads :
        (Finished(t) /\ th[t].op \in {"to_home", "home"} /\ th[t].rows > 0) =>
            /\ th[t].row = "null" => th[t].ret = Failed("NullPointerResult")
            /\ th[t].vt \in {"VT_NULL", "VT_EMPTY"} => IsFailed(th[t].ret)
            /\ th[t].vt = "VT_NULL" => th[t].ret = Failed("NullPointerResult")
            /\ IsFound(th[t].ret) =>
                  (th[t].vt = "VT_BSTR" /\ th[t].ret = Found(PathOf(th[t].id)))

\* The allocation of a call's buffer failed: the probe gave a size, and
\* the call returned with no buffer ever allocated.
AllocFailed(l) ==
    /\ l.pc = "done"
    /\ l.op \in {"with_username", "my_id", "home"}
    /\ l.first \in {"ok", "ERROR_INSUFFICIENT_BUFFER"}
    /\ l.size > 0
    /\ l.buf = "none"

\* C12 as stated: a call that has failed with an error E returns E also
\* when a cleanup step run on the way out (CloseHandle on the token in
\* my_id, LocalFree of the SID string in sid_to_string) fails; a cleanup
\* failure is returned only when nothing else failed.
C12_CleanupDoesNotMask ==
    \A t \in Threads :
        (Finished(t) /\ th[t].op \in {"my_id", "with_username"}) =>
            \* the conversion to a string failed, then LocalFree
            /\ th[t].conv = "Utf16Error" => th[t].inner = Failed("Utf16Error")
            \* the data fetch or sid_to_string failed, then CloseHandle
            /\ IsFailed(th[t].inner) => th[t].ret = th[t].inner
            \* the size probe failed, then CloseHandle
            /\ (th[t].op = "my_id" /\ th[t].token # "none"
                 /\ th[t].first \notin {"none", "ok", "ERROR_INSUFFICIENT_BUFFER"})
                  => th[t].ret = Failed(th[t].first)
            \* the allocation failed, then CloseHandle
            /\ AllocFailed(th[t]) => th[t].ret = Failed("E_OUTOFMEMORY")

\* C13: the SID buffer of with_username is released only after
\* sid_to_string has returned, and is released whether the buffer-filling
\* lookup and the conversion succeeded or failed; the string buffer is
\* released only after its contents were copied; no buffer of
\* with_username, my_id or sid_to_string is read after its release.
C13_BuffersOutliveTheirUse ==
    \A t \in Threads :
        th[t].op \in {"with_username", "home", "my_id"} =>
            /\ ~th[t].uaf
            /\ ~th[t].early
            /\ th[t].pc \in {"wu_fill", "mi_fill", "sts_convert", "sts_free"}
                  => th[t].buf = "live"
            /\ th[t].pc \notin {"wu_fill", "mi_fill", "sts_convert", "sts_free",
                                "wu_end", "mi_end"} =>
                  /\ th[t].nalloc >= 1 => th[t].buf = "freed"
                  /\ (th[t].op = "with_username" /\ th[t].second # "none")
                        => th[t].buf = "freed"
                  /\ th[t].conv # "none" => th[t].str = "freed"
                  /\ th[t].conv = "none" => th[t].str = "none"

\* with_username has returned the failure of the conversion, with the SID
\* buffer allocated, filled, read by the conversion and then released.
C13_Witness ==
    \E t \in Threads :
        /\ Finished(t)
        /\ th[t].op = "with_username"
        /\ th[t].second = "ok"
        /\ th[t].conv = "Utf16Error"
        /\ th[t].ret = Failed("Utf16Error")
        /\ th[t].buf = "freed"
        /\ th[t].str = "freed"
        /\ th[t].nalloc = 2
        /\ th[t].nfree = 2

\* C14 as stated: query_home waits a bounded time for its one row, so a
\* call that has reached the pull of the row returns to its caller, also
\* when the service delivers neither a row nor the end of the results.
C14_QueryHomeReturns ==
    \A t \in Threads : (th[t].pc = "qh_next") ~> Finished(t)

\* The size probe was accepted (it succeeded or asked for a buffer).
ProbeAccepted(l) == l.first \in {"ok", "ERROR_INSUFFICIENT_BUFFER"}

\* C15 as stated: with_username and my_id never allocate zero bytes and
\* never make the buffer-filling call without a buffer: a required size
\* left at zero by the probe (also by a probe that succeeded) is returned
\* as Failed(E_UNEXPECTED) before any allocation, and a null allocation as
\* Failed(E_OUTOFMEMORY) with no second OS call and no deallocation.
C15_NoZeroSizeAllocation ==
    \A t \in Threads :
        th[t].op \in {"with_username", "my_id"} =>
            /\ th[t].buf # "none" => (th[t].size > 0 /\ ProbeAccepted(th[t]))
            /\ th[t].second # "none" => th[t].buf # "none"
            /\ (ProbeAccepted(th[t]) /\ th[t].size = 0) =>
                  /\ Finished(t)
                  /\ th[t].ret = Failed("E_UNEXPECTED")
                  /\ th[t].buf = "none" /\ th[t].nalloc = 0
                  /\ th[t].second = "none"
            /\ AllocFailed(th[t]) =>
                  /\ th[t].ret = Failed("E_OUTOFMEMORY")
                  /\ th[t].second = "none"
                  /\ th[t].nalloc = 0 /\ th[t].nfree = 0

====
